---- MODULE Spec2Model ----
(***************************************************************************)
(* Model of the Hubble viewer of ramj39/astronomy_dashboard                *)
(* (src/hubble_data_viewer2.py): the observation locator and product       *)
(* filter (get_hubble_fits_urls), the band loader (load_fits_from_url),    *)
(* the compositor (create_rgb_image / safe_normalize) and the tab1 flow    *)
(* of the script that ties them together.                                  *)
(***************************************************************************)
EXTENDS Integers, Sequences, FiniteSets, TLC

(***************************************************************************)
(* Bounds of the model.                                                    *)
(***************************************************************************)
MaxObs == 11          \* longest observation table the catalog returns
MaxProducts == 7      \* longest product table the listing returns
MaxRetries == 3       \* largest max_retries passed to load_fits_from_url
MaxExt == 2           \* most extensions (HDUs) in a FITS file
MaxVal == 1           \* largest pixel value
MaxRuns == 2          \* runs of the script in one server session

(***************************************************************************)
(* Program constants.                                                      *)
(***************************************************************************)
ObsLimit == 10        \* obs_table['obsid'][:10]
UrlLimit == 6         \* urls[:6]
DefaultRetries == 2   \* max_retries=2
BandsNeeded == 3      \* len(urls) >= 3, urls[:3]

Bands == <<"Red", "Green", "Blue">>
BandNames == {"Red", "Green", "Blue"}

(***************************************************************************)
(* Arrays.  A numpy array is its shape, its pixels in row-major order and  *)
(* the set of positions that hold NaN (px is 0 there).  Python's None is   *)
(* the value NoneVal.                                                      *)
(***************************************************************************)
NoneVal == [shape |-> <<>>, px |-> <<>>, nan |-> {}]

Prod(s) == IF Len(s) = 0 THEN 1 ELSE IF Len(s) = 1 THEN s[1] ELSE s[1] * s[2]

PixSeqs(n) == [1..n -> 0..MaxVal]

ArraysOfShape(sh) ==
    { [shape |-> sh,
       px |-> [i \in 1..Prod(sh) |-> IF i \in ns THEN 0 ELSE p[i]],
       nan |-> ns] :
      p \in PixSeqs(Prod(sh)), ns \in SUBSET (1..Prod(sh)) }

\* 2-D image data as decoded from a FITS image extension
ImageShapes == {<<1, 1>>, <<1, 2>>}
Images == UNION { ArraysOfShape(sh) : sh \in ImageShapes }

\* 1-D data as decoded from a table extension
TableData == [shape |-> <<2>>, px |-> <<0, 0>>, nan |-> {}]

IsNone(a) == a = NoneVal

(***************************************************************************)
(* bool(x) as all() applies it to a band: None is false, an array of one   *)
(* element has the truth of the element (NaN is true), an array of more    *)
(* than one element raises ValueError.                                     *)
(***************************************************************************)
Truth(a) ==
    IF IsNone(a) THEN "false"
    ELSE IF Len(a.px) > 1 THEN "raise"
    ELSE IF 1 \in a.nan \/ a.px[1] # 0 THEN "true"
    ELSE "false"

\* all(bands_data.values()): left to right, stops at the first false value
RECURSIVE AllTruth(_)
AllTruth(vals) ==
    IF Len(vals) = 0 THEN "true"
    ELSE LET t == Truth(Head(vals)) IN
         IF t = "true" THEN AllTruth(Tail(vals)) ELSE t

(***************************************************************************)
(* safe_normalize.  Percentiles are kept times 100, so that numpy's        *)
(* linear interpolation stays in the integers.                             *)
(***************************************************************************)
RECURSIVE np_sort(_)
np_sort(s) ==
    IF Len(s) <= 1 THEN s
    ELSE LET m == CHOOSE i \in 1..Len(s) : \A j \in 1..Len(s) : s[i] <= s[j]
             rest == [k \in 1..(Len(s) - 1) |-> IF k < m THEN s[k] ELSE s[k + 1]]
         IN  <<s[m]>> \o np_sort(rest)

\* np.nan_to_num: NaN becomes 0
nan_to_num(a) == [a EXCEPT !.nan = {}]

\* 100 * np.percentile(data, 1)
Percentile1(px) ==
    LET s == np_sort(px)
        n == Len(px)
    IN  IF n = 1 THEN 100 * s[1]
        ELSE 100 * s[1] + (n - 1) * (s[2] - s[1])

\* 100 * np.percentile(data, 99)
Percentile99(px) ==
    LET s == np_sort(px)
        n == Len(px)
    IN  IF n = 1 THEN 100 * s[1]
        ELSE 100 * s[n - 1] + (100 - (n - 1)) * (s[n] - s[n - 1])

Clip(v, lo, hi) == IF v < lo THEN lo ELSE IF v > hi THEN hi ELSE v

(***************************************************************************)
(* The normalized band is num[i] / den per pixel; a zero denominator makes *)
(* the pixel 0/0 = NaN (numpy warns, it does not raise).  None maps to     *)
(* NoneNorm.                                                               *)
(***************************************************************************)
NoneNorm == [shape |-> <<>>, num |-> <<>>, den |-> 1, nan |-> {}]

safe_normalize(data) ==
    IF IsNone(data) THEN NoneNorm
    ELSE LET d == nan_to_num(data)
             p_low == Percentile1(d.px)
             p_high == Percentile99(d.px)
             den == p_high - p_low
         IN  [shape |-> d.shape,
              num |-> [i \in 1..Len(d.px) |-> Clip(100 * d.px[i], p_low, p_high) - p_low],
              den |-> den,
              nan |-> IF den = 0 THEN 1..Len(d.px) ELSE {}]

(***************************************************************************)
(* make_lupton_rgb (astropy): raises ValueError when the three images do   *)
(* not have the same shape, otherwise returns an array of shape (h, w, 3). *)
(* tainted records that a NaN pixel went into the composite.               *)
(***************************************************************************)
NoneRgb == [shape |-> <<>>, tainted |-> FALSE]

make_lupton_rgb(r, g, b, stretch, Q) ==
    IF r.shape # g.shape \/ r.shape # b.shape
    THEN [raises |-> TRUE, rgb |-> NoneRgb]
    ELSE [raises |-> FALSE,
          rgb |-> [shape |-> r.shape \o <<3>>,
                   tainted |-> (r.nan \cup g.nan \cup b.nan) # {}]]

\* create_rgb_image with the try/except removed: the exception escapes
create_rgb_image_NoCatch(r_data, g_data, b_data, stretch, Q) ==
    LET r_norm == safe_normalize(r_data)
        g_norm == safe_normalize(g_data)
        b_norm == safe_normalize(b_data)
        norms == <<r_norm, g_norm, b_norm>>
    IN  IF \E k \in 1..3 : norms[k] = NoneNorm
        THEN [result |-> NoneRgb, norms |-> norms, error |-> FALSE, raised |-> FALSE]
        ELSE LET out == make_lupton_rgb(r_norm, g_norm, b_norm, stretch, Q)
             IN  [result |-> out.rgb, norms |-> norms,
                  error |-> FALSE, raised |-> out.raises]

(***************************************************************************)
(* create_rgb_image: result is the returned value (NoneRgb for None),      *)
(* norms the three locals r_norm, g_norm, b_norm, error whether st.error   *)
(* was called by the except clause, raised whether an exception left the   *)
(* function.                                                               *)
(***************************************************************************)
create_rgb_image(r_data, g_data, b_data, stretch, Q) ==
    LET r_norm == safe_normalize(r_data)
        g_norm == safe_normalize(g_data)
        b_norm == safe_normalize(b_data)
        norms == <<r_norm, g_norm, b_norm>>
    IN  IF \E k \in 1..3 : norms[k] = NoneNorm
        THEN [result |-> NoneRgb, norms |-> norms, error |-> FALSE, raised |-> FALSE]
        ELSE LET out == make_lupton_rgb(r_norm, g_norm, b_norm, stretch, Q)
             IN  IF out.raises
                 THEN [result |-> NoneRgb, norms |-> norms,
                       error |-> TRUE, raised |-> FALSE]
                 ELSE [result |-> out.rgb, norms |-> norms,
                       error |-> FALSE, raised |-> FALSE]

(***************************************************************************)
(* Observation and product tables of the MAST service.                     *)
(***************************************************************************)
\* an observation table is its obsid column, in catalog order
ObsTables == { [i \in 1..n |-> i] : n \in 0..MaxObs }

ProductKinds ==
    << [productType |-> "image", extension |-> "fits", subgroup |-> "FLT"],
       [productType |-> "image", extension |-> "fits", subgroup |-> "DRZ"],
       [productType |-> "image", extension |-> "jpg",  subgroup |-> "FLT"],
       [productType |-> "info",  extension |-> "fits", subgroup |-> "FLT"] >>

\* a product table: row i has dataURI i and the kind the pattern gives it
ProductTable(n, pat) ==
    [i \in 1..n |->
        LET k == ProductKinds[pat[((i - 1) % Len(pat)) + 1]]
        IN  [dataURI |-> i, productType |-> k.productType,
             extension |-> k.extension, subgroup |-> k.subgroup]]

ProductTables ==
    { ProductTable(n, pat) : n \in 0..MaxProducts, pat \in [1..2 -> 1..4] }

\* Observations.filter_products; subgroup "" stands for no criterion on it
filter_products(products, productType, extension, subgroup) ==
    LET Matches(p) == /\ p.productType = productType
                      /\ p.extension = extension
                      /\ (subgroup = "" \/ p.subgroup = subgroup)
    IN  SelectSeq(products, Matches)

\* s[:n]
Take(s, n) == IF Len(s) <= n THEN s ELSE SubSeq(s, 1, n)

(***************************************************************************)
(* FITS files: a sequence of extensions, each with data None, 1-D table    *)
(* data or a 2-D image.                                                    *)
(***************************************************************************)
ExtDatas == {NoneVal, TableData} \cup Images
FitsFiles == UNION { [1..n -> ExtDatas] : n \in 1..MaxExt }

Arr(sh, px, nan) == [shape |-> sh, px |-> px, nan |-> nan]

\* the files the archive serves during a run of the script
ArchiveFiles ==
    { <<NoneVal>>,
      <<TableData>>,
      <<Arr(<<1, 1>>, <<0>>, {})>>,
      <<Arr(<<1, 1>>, <<1>>, {})>>,
      <<NoneVal, Arr(<<1, 1>>, <<0>>, {1})>>,
      <<Arr(<<1, 2>>, <<1, 1>>, {})>>,
      <<TableData, Arr(<<1, 2>>, <<0, 1>>, {})>>,
      <<Arr(<<1, 2>>, <<0, 1>>, {}), Arr(<<1, 1>>, <<1>>, {})>> }

\* ext.data is not None and len(ext.data.shape) >= 2
ValidExt(d) == ~IsNone(d) /\ Len(d.shape) >= 2

\* what load_fits_from_url returns: (data, header) or (None, None); the
\* header is identified by the index of its extension, 0 for None
NonePair == [data |-> NoneVal, header |-> 0, pair |-> TRUE]
\* a bare None, as when the function falls off its end
BareNone == [data |-> NoneVal, header |-> 0, pair |-> FALSE]

\* the scan "for ext in hdul" that returns from the last matching extension
ScanHdul_Last(hdul) ==
    IF \E k \in 1..Len(hdul) : ValidExt(hdul[k])
    THEN LET k == CHOOSE j \in 1..Len(hdul) :
                    /\ ValidExt(hdul[j])
                    /\ \A h \in (j + 1)..Len(hdul) : ~ValidExt(hdul[h])
         IN  [data |-> hdul[k], header |-> k, pair |-> TRUE]
    ELSE NonePair

\* the scan "for ext in hdul" with its return, then "return None, None"
ScanHdul(hdul) ==
    IF \E k \in 1..Len(hdul) : ValidExt(hdul[k])
    THEN LET k == CHOOSE j \in 1..Len(hdul) :
                    /\ ValidExt(hdul[j])
                    /\ \A h \in 1..(j - 1) : ~ValidExt(hdul[h])
         IN  [data |-> hdul[k], header |-> k, pair |-> TRUE]
    ELSE NonePair

(***************************************************************************)
(* State of one run of the script.                                         *)
(***************************************************************************)
VARIABLES
    pc,           \* position of the script: "locate", "branch", "load",
                  \* "check", "compose", "done", "crashed"
    loc_pc,       \* position inside get_hubble_fits_urls
    obs_table,    \* get_hubble_fits_urls: obs_table
    obs_ids,      \* get_hubble_fits_urls: obs_ids, as passed to get_product_list
    products,     \* get_hubble_fits_urls: products
    filter_calls, \* subgroup criterion of each filter_products call made
    calls,        \* external service calls made by get_hubble_fits_urls
    obs_counts,   \* rows returned by each catalog query, in call order
    loc_raised,   \* the external call that raised, "" for none
    urls,         \* rows behind the urls returned by get_hubble_fits_urls
    band,         \* index of the band being loaded (loop at line 235)
    bands_data,   \* bands_data, None for a band not loaded
    lf_pc,        \* position inside load_fits_from_url
    lf_url,       \* load_fits_from_url: url
    lf_max,       \* load_fits_from_url: max_retries
    attempt,      \* load_fits_from_url: loop variable attempt
    attempts,     \* download/decode attempts made by the current call
    raises,       \* attempts of the current call that raised
    sleeps,       \* time.sleep(1) calls made by the current call
    lf_warned,    \* the current call showed its st.warning
    lf_hdul,      \* load_fits_from_url: hdul while the file is open
    lf_result,    \* value returned by the current call
    stretch,      \* slider "RGB Stretch", in tenths
    Q,            \* slider "RGB Q Factor"
    composed,     \* create_rgb_image was called
    cr_out,       \* what create_rgb_image did
    shown,        \* the image was plotted and offered for download
    msgs,         \* kinds of messages shown to the user
    fault,        \* the exception that ended the run, "" for none
    object_name,  \* text input: the object_name argument of the locator
    run,          \* number of the current run of the script
    loc_cache,    \* st.cache_data store of get_hubble_fits_urls
    loc_hit,      \* the current get_hubble_fits_urls call was a cache hit
    fits_cache,   \* st.cache_data store of load_fits_from_url
    lf_hit        \* the current load_fits_from_url call was a cache hit

vars == <<pc, loc_pc, obs_table, obs_ids, products, filter_calls, calls,
          obs_counts, loc_raised, urls,
          band, bands_data, lf_pc, lf_url, lf_max, attempt, attempts, raises,
          sleeps, lf_warned, lf_hdul, lf_result, stretch, Q, composed, cr_out, shown,
          msgs, fault, object_name, run, loc_cache, loc_hit, fits_cache,
          lf_hit>>

locVars == <<loc_pc, obs_table, obs_ids, products, filter_calls, calls,
             obs_counts, loc_raised, urls, loc_hit>>
loadVars == <<lf_pc, lf_url, lf_max, attempt, attempts, raises, sleeps,
              lf_warned, lf_hdul, lf_result, lf_hit>>
composeVars == <<composed, cr_out, shown>>
cacheVars == <<object_name, run, loc_cache, fits_cache>>

\* object names the model draws from; the first is the default of line 70
ObjectNames == {"M51", "M101"}
DefaultObject == "M51"

\* slider positions the model draws from (stretch 0.1..2.0, Q 1..20)
StretchVals == {5, 20}
QVals == {1, 10}

NoRow == [dataURI |-> 0, productType |-> "", extension |-> "", subgroup |-> ""]
NoCrOut == [result |-> NoneRgb, norms |-> <<NoneNorm, NoneNorm, NoneNorm>>,
            error |-> FALSE, raised |-> FALSE]

\* get_hubble_fits_urls has not made any call
InitLocVars ==
    /\ obs_table = <<>>
    /\ obs_ids = <<>>
    /\ products = <<>>
    /\ filter_calls = <<>>
    /\ calls = {}
    /\ obs_counts = <<>>
    /\ loc_raised = ""
    /\ urls = <<>>
    /\ loc_hit = FALSE

\* load_fits_from_url is not running
InitLoadVars ==
    /\ lf_pc = "idle"
    /\ lf_url = NoRow
    /\ lf_max = DefaultRetries
    /\ attempt = 0
    /\ attempts = 0
    /\ raises = 0
    /\ sleeps = 0
    /\ lf_warned = FALSE
    /\ lf_hdul = <<>>
    /\ lf_result = BareNone
    /\ lf_hit = FALSE

(***************************************************************************)
(* st.cache_data (lines 80, 140): a store per decorated function, kept by  *)
(* the server across runs and keyed by the arguments of the call.  The     *)
(* locator is keyed by object_name (the radius stays at its default), the  *)
(* loader by the dataURI of url.  An entry holds the returned value and    *)
(* the messages the call showed, which a hit shows again.                  *)
(***************************************************************************)
NoLocEntry == [cached |-> FALSE, urls |-> <<>>, msgs |-> {}]
NoFitsEntry == [cached |-> FALSE, result |-> BareNone, warned |-> FALSE]

\* the server has just started: both stores are empty
InitCacheVars ==
    /\ run = 1
    /\ loc_cache = [n \in ObjectNames |-> NoLocEntry]
    /\ fits_cache = [u \in 0..MaxProducts |-> NoFitsEntry]

\* the lookup of a store that never finds an entry
CacheHit_Never(entry) == FALSE

\* the lookup of st.cache_data: the arguments have a stored value
CacheHit(entry) == entry.cached

\* nothing was composed, shown or reported
InitOutVars ==
    /\ composed = FALSE
    /\ cr_out = NoCrOut
    /\ shown = FALSE
    /\ msgs = {}
    /\ fault = ""

\* the script is about to call get_hubble_fits_urls (line 219)
Init ==
    /\ pc = "locate"
    /\ loc_pc = "query_object"
    /\ stretch \in StretchVals
    /\ Q \in QVals
    /\ band = 0
    /\ bands_data = [b \in BandNames |-> NoneVal]
    /\ object_name \in ObjectNames
    /\ InitLocVars
    /\ InitLoadVars
    /\ InitOutVars
    /\ InitCacheVars

(***************************************************************************)
(* get_hubble_fits_urls (lines 81-137), one action per external call.      *)
(***************************************************************************)
\* "return [], pd.DataFrame()" after the messages m
ReturnEmpty(m) ==
    /\ urls' = <<>>
    /\ msgs' = msgs \cup m
    /\ loc_pc' = "returned"

\* lines 88, 100 with a test that no table satisfies
NoResults_Never(t) == FALSE

\* lines 88, 100: len(obs_table) == 0
NoResults(t) == Len(t) = 0

\* lines 86-104: Observations.query_object
QueryObject ==
    /\ pc = "locate" /\ loc_pc = "query_object"
    /\ calls' = calls \cup {"query_object"}
    /\ \/ /\ ReturnEmpty({"info_querying", "error_mast_query_failed"})
          /\ loc_raised' = "query_object"
          /\ UNCHANGED <<obs_table, obs_counts>>
       \/ \E t \in ObsTables :
            /\ obs_table' = t
            /\ obs_counts' = Append(obs_counts, Len(t))
            /\ msgs' = msgs \cup {"info_querying"} \cup
                  (IF NoResults(t) THEN {"warn_no_observations_trying_coordinates"}
                   ELSE {"success_found_observations"})
            /\ loc_pc' = IF NoResults(t) THEN "from_name" ELSE "get_product_list"
            /\ UNCHANGED <<urls, loc_raised>>
    /\ UNCHANGED <<obs_ids, products, filter_calls>>
    /\ UNCHANGED <<pc, band, bands_data, stretch, Q, fault, loc_hit>>
    /\ UNCHANGED cacheVars
    /\ UNCHANGED loadVars
    /\ UNCHANGED composeVars

\* lines 92-98: SkyCoord.from_name
FromName ==
    /\ pc = "locate" /\ loc_pc = "from_name"
    /\ calls' = calls \cup {"from_name"}
    /\ \/ /\ ReturnEmpty({"error_could_not_resolve"})
          /\ loc_raised' = "from_name"
       \/ /\ loc_pc' = "query_region"
          /\ UNCHANGED <<urls, msgs, loc_raised>>
    /\ UNCHANGED <<obs_table, obs_ids, products, filter_calls, obs_counts>>
    /\ UNCHANGED <<pc, band, bands_data, stretch, Q, fault, loc_hit>>
    /\ UNCHANGED cacheVars
    /\ UNCHANGED loadVars
    /\ UNCHANGED composeVars

\* lines 95-104: Observations.query_region
QueryRegion ==
    /\ pc = "locate" /\ loc_pc = "query_region"
    /\ calls' = calls \cup {"query_region"}
    /\ \/ /\ ReturnEmpty({"error_could_not_resolve"})
          /\ loc_raised' = "query_region"
          /\ UNCHANGED <<obs_table, obs_counts>>
       \/ \E t \in ObsTables :
            /\ obs_table' = t
            /\ obs_counts' = Append(obs_counts, Len(t))
            /\ IF NoResults(t)
               THEN ReturnEmpty({"error_no_hubble_observations"})
               ELSE /\ msgs' = msgs \cup {"success_found_observations"}
                    /\ loc_pc' = "get_product_list"
                    /\ UNCHANGED urls
            /\ UNCHANGED loc_raised
    /\ UNCHANGED <<obs_ids, products, filter_calls>>
    /\ UNCHANGED <<pc, band, bands_data, stretch, Q, fault, loc_hit>>
    /\ UNCHANGED cacheVars
    /\ UNCHANGED loadVars
    /\ UNCHANGED composeVars

\* lines 110-124 with the second filter applied unconditionally
FilterScience_Always(prods) ==
    [filtered |-> filter_products(prods, "image", "fits", ""),
     criteria |-> <<"FLT", "">>]

\* lines 110-124: the FLT filter, then any FITS image if it matched nothing
FilterScience(prods) ==
    LET flt == filter_products(prods, "image", "fits", "FLT")
    IN  IF Len(flt) = 0
        THEN [filtered |-> filter_products(prods, "image", "fits", ""),
              criteria |-> <<"FLT", "">>]
        ELSE [filtered |-> flt, criteria |-> <<"FLT">>]

\* obs_table['obsid'][:10]
ObsIds(t) == Take(t, ObsLimit)

\* line 130 without the slice
FirstUrls_All(filtered) == filtered

\* urls[:6]
FirstUrls(filtered) == Take(filtered, UrlLimit)

\* lines 107-133: Observations.get_product_list and the product filter
GetProductList ==
    /\ pc = "locate" /\ loc_pc = "get_product_list"
    /\ calls' = calls \cup {"get_product_list"}
    /\ obs_ids' = ObsIds(obs_table)
    /\ \/ /\ ReturnEmpty({"error_mast_query_failed"})
          /\ loc_raised' = "get_product_list"
          /\ UNCHANGED <<products, filter_calls>>
       \/ \E t \in ProductTables :
            LET f == FilterScience(t) IN
            /\ products' = t
            /\ UNCHANGED loc_raised
            /\ filter_calls' = f.criteria
            /\ IF Len(f.filtered) > 0
               THEN /\ urls' = FirstUrls(f.filtered)
                    /\ msgs' = msgs \cup {"success_found_fits"}
                    /\ loc_pc' = "returned"
               ELSE ReturnEmpty({"warn_no_fits_files"})
    /\ UNCHANGED <<obs_table, obs_counts>>
    /\ UNCHANGED <<pc, band, bands_data, stretch, Q, fault, loc_hit>>
    /\ UNCHANGED cacheVars
    /\ UNCHANGED loadVars
    /\ UNCHANGED composeVars

\* line 219: "urls, products_df = get_hubble_fits_urls(...)" returns; the
\* locals of the call are gone, and the value a call computed is stored
LocReturn ==
    /\ pc = "locate" /\ loc_pc = "returned"
    /\ pc' = "branch"
    /\ loc_pc' = "idle"
    /\ obs_table' = <<>>
    /\ obs_ids' = <<>>
    /\ products' = <<>>
    /\ filter_calls' = <<>>
    /\ calls' = {}
    /\ obs_counts' = <<>>
    /\ loc_raised' = ""
    /\ loc_hit' = FALSE
    /\ loc_cache' = IF loc_hit THEN loc_cache
                    ELSE [loc_cache EXCEPT ![object_name] =
                            [cached |-> TRUE, urls |-> urls, msgs |-> msgs]]
    /\ UNCHANGED <<urls, band, bands_data, stretch, Q, msgs, fault>>
    /\ UNCHANGED <<object_name, run, fits_cache>>
    /\ UNCHANGED loadVars
    /\ UNCHANGED composeVars

(***************************************************************************)
(* load_fits_from_url (lines 141-156).                                     *)
(***************************************************************************)
\* the call: the arguments are bound and the decorated function is entered
CallLoad(url, max_retries) ==
    /\ lf_pc' = "enter"
    /\ lf_url' = url
    /\ lf_max' = max_retries
    /\ attempt' = 0
    /\ attempts' = 0
    /\ raises' = 0
    /\ sleeps' = 0
    /\ lf_warned' = FALSE
    /\ lf_hdul' = <<>>
    /\ lf_result' = BareNone
    /\ lf_hit' = FALSE

\* the value the call returns is stored under its url
StoreFits(result, warned) ==
    fits_cache' = [fits_cache EXCEPT ![lf_url.dataURI] =
                     [cached |-> TRUE, result |-> result, warned |-> warned]]

\* line 140: the store is looked up and a hit returns the stored value and
\* shows the stored warning again.  Otherwise line 142: "for attempt in
\* range(max_retries)"; an empty range falls off the end of the function,
\* which returns a bare None
LoadEnter ==
    /\ lf_pc = "enter"
    /\ LET entry == fits_cache[lf_url.dataURI] IN
       IF CacheHit(entry)
       THEN /\ lf_pc' = "done"
            /\ lf_hit' = TRUE
            /\ lf_result' = entry.result
            /\ lf_warned' = entry.warned
            /\ msgs' = IF entry.warned THEN msgs \cup {"warn_failed_to_load"}
                       ELSE msgs
            /\ UNCHANGED fits_cache
       ELSE /\ lf_pc' = IF lf_max >= 1 THEN "attempt" ELSE "done"
            /\ IF lf_max >= 1 THEN UNCHANGED fits_cache
               ELSE StoreFits(BareNone, FALSE)
            /\ UNCHANGED <<lf_hit, lf_result, lf_warned, msgs>>
    /\ UNCHANGED <<lf_url, lf_max, attempt, attempts, raises, sleeps, lf_hdul>>
    /\ UNCHANGED <<pc, band, bands_data, stretch, Q, fault>>
    /\ UNCHANGED <<object_name, run, loc_cache>>
    /\ UNCHANGED locVars
    /\ UNCHANGED composeVars

\* line 152 without the "- 1": the wait also follows the last attempt
MoreAttempts_OffByOne(a, max_retries) == a < max_retries

\* line 152: attempt < max_retries - 1
MoreAttempts(a, max_retries) == a < max_retries - 1

\* lines 143-145, 151-156: one download/decode attempt on a file drawn
\* from files.  An exception with attempts remaining is followed by
\* time.sleep(1) and "continue", which ends the loop when the range is
\* used up.
LoadAttempt(files) ==
    /\ lf_pc = "attempt"
    /\ attempts' = attempts + 1
    /\ \/ \* download_file or fits.open raises
          /\ raises' = raises + 1
          /\ IF MoreAttempts(attempt, lf_max)
             THEN /\ sleeps' = sleeps + 1
                  /\ attempt' = attempt + 1
                  /\ lf_pc' = IF attempt + 1 < lf_max THEN "attempt" ELSE "done"
                  /\ IF attempt + 1 < lf_max THEN UNCHANGED fits_cache
                     ELSE StoreFits(BareNone, FALSE)
                  /\ UNCHANGED <<lf_warned, lf_result, msgs>>
             ELSE /\ lf_warned' = TRUE
                  /\ msgs' = msgs \cup {"warn_failed_to_load"}
                  /\ lf_result' = NonePair
                  /\ lf_pc' = "done"
                  /\ StoreFits(NonePair, TRUE)
                  /\ UNCHANGED <<sleeps, attempt>>
          /\ UNCHANGED lf_hdul
       \/ \* the file is downloaded and opened
          \E hdul \in files :
            /\ lf_hdul' = hdul
            /\ lf_pc' = "opened"
            /\ UNCHANGED <<raises, sleeps, attempt, lf_warned, lf_result, msgs>>
            /\ UNCHANGED fits_cache
    /\ UNCHANGED <<lf_url, lf_max, lf_hit>>
    /\ UNCHANGED <<object_name, run, loc_cache>>
    /\ UNCHANGED <<pc, band, bands_data, stretch, Q, fault>>
    /\ UNCHANGED locVars
    /\ UNCHANGED composeVars

\* an attempt of a call made by the script
LoadAttemptLive == LoadAttempt(ArchiveFiles)

\* an attempt of a call on any file
LoadAttemptAny == LoadAttempt(FitsFiles)

\* lines 145-150: the extensions are scanned, the file is closed and the
\* function returns
LoadScan ==
    /\ lf_pc = "opened"
    /\ lf_result' = ScanHdul(lf_hdul)
    /\ lf_hdul' = <<>>
    /\ lf_pc' = "done"
    /\ StoreFits(ScanHdul(lf_hdul), FALSE)
    /\ UNCHANGED <<object_name, run, loc_cache>>
    /\ UNCHANGED <<lf_url, lf_max, attempt, attempts, raises, sleeps, lf_warned,
                   lf_hit>>
    /\ UNCHANGED <<pc, band, bands_data, stretch, Q, msgs, fault>>
    /\ UNCHANGED locVars
    /\ UNCHANGED composeVars

(***************************************************************************)
(* The tab1 flow of the script (lines 228-286).                            *)
(***************************************************************************)
\* lines 228-286: the three-way branch on len(urls); the first branch
\* enters the band loop, the last one reads the demo checkbox
Branch ==
    /\ pc = "branch"
    /\ \/ /\ Len(urls) >= BandsNeeded
          /\ msgs' = msgs \cup {"success_using_first_3"}
          /\ band' = 1
          /\ CallLoad(urls[1], DefaultRetries)
          /\ pc' = "load"
          /\ UNCHANGED fault
       \/ /\ Len(urls) < BandsNeeded /\ Len(urls) > 0
          /\ msgs' = msgs \cup {"warn_found_only_n"}
          /\ pc' = "done"
          /\ UNCHANGED <<band, fault>>
          /\ UNCHANGED loadVars
       \/ /\ Len(urls) = 0
          /\ \E checked \in BOOLEAN :
               IF checked
               THEN \* line 286: the name r_demo is not defined
                    /\ msgs' = msgs \cup {"warn_no_hubble_data", "info_demo"}
                    /\ fault' = "NameError"
                    /\ pc' = "crashed"
               ELSE /\ msgs' = msgs \cup {"warn_no_hubble_data"}
                    /\ pc' = "done"
                    /\ UNCHANGED fault
          /\ UNCHANGED band
          /\ UNCHANGED loadVars
    /\ UNCHANGED <<bands_data, stretch, Q>>
    /\ UNCHANGED cacheVars
    /\ UNCHANGED locVars
    /\ UNCHANGED composeVars

\* lines 236-238: "data, header = load_fits_from_url(url)" returns and the
\* band is stored; unpacking a bare None raises TypeError
StoreBand ==
    /\ pc = "load" /\ lf_pc = "done"
    /\ IF ~lf_result.pair
       THEN /\ fault' = "TypeError"
            /\ pc' = "crashed"
            /\ lf_pc' = "idle"
            /\ UNCHANGED <<band, bands_data, lf_url, lf_max, attempt, attempts,
                           raises, sleeps, lf_warned, lf_hdul, lf_result, lf_hit>>
       ELSE /\ bands_data' = [bands_data EXCEPT ![Bands[band]] = lf_result.data]
            /\ UNCHANGED fault
            /\ IF band < BandsNeeded
               THEN /\ band' = band + 1
                    /\ CallLoad(urls[band + 1], DefaultRetries)
                    /\ UNCHANGED pc
               ELSE /\ pc' = "check"
                    /\ lf_pc' = "idle"
                    /\ UNCHANGED <<band, lf_url, lf_max, attempt, attempts,
                                   raises, sleeps, lf_warned, lf_hdul, lf_result,
                                   lf_hit>>
    /\ UNCHANGED <<stretch, Q, msgs>>
    /\ UNCHANGED cacheVars
    /\ UNCHANGED locVars
    /\ UNCHANGED composeVars

\* bands_data.values(), in insertion order
BandValues == [k \in 1..3 |-> bands_data[Bands[k]]]

\* lines 241, 264-265: "if all(bands_data.values())"
CheckBands ==
    /\ pc = "check"
    /\ LET t == AllTruth(BandValues) IN
       /\ pc' = CASE t = "true" -> "compose"
                  [] t = "false" -> "done"
                  [] OTHER -> "crashed"
       /\ msgs' = IF t = "false" THEN msgs \cup {"error_failed_to_load_fits"}
                  ELSE msgs
       /\ fault' = IF t = "raise" THEN "ValueError" ELSE fault
    /\ UNCHANGED <<band, bands_data, stretch, Q>>
    /\ UNCHANGED cacheVars
    /\ UNCHANGED locVars
    /\ UNCHANGED loadVars
    /\ UNCHANGED composeVars

\* lines 242-263: create_rgb_image is called and a result that is not None
\* is plotted and offered for download
Compose ==
    /\ pc = "compose"
    /\ LET out == create_rgb_image(bands_data["Red"], bands_data["Green"],
                                   bands_data["Blue"], stretch, Q)
       IN  /\ composed' = TRUE
           /\ cr_out' = out
           /\ msgs' = IF out.error THEN msgs \cup {"error_rgb_creation_failed"}
                      ELSE msgs
           /\ shown' = (~out.raised /\ out.result # NoneRgb)
           /\ pc' = IF out.raised THEN "crashed" ELSE "done"
           /\ fault' = IF out.raised THEN "ValueError" ELSE fault
    /\ UNCHANGED <<band, bands_data, stretch, Q>>
    /\ UNCHANGED cacheVars
    /\ UNCHANGED locVars
    /\ UNCHANGED loadVars

Next ==
    \/ QueryObject
    \/ FromName
    \/ QueryRegion
    \/ GetProductList
    \/ LocReturn
    \/ Branch
    \/ LoadEnter
    \/ LoadAttemptLive
    \/ LoadScan
    \/ StoreBand
    \/ CheckBands
    \/ Compose

Spec == Init /\ [][Next]_vars

(***************************************************************************)
(* get_hubble_fits_urls alone: the run up to the return of the call.       *)
(***************************************************************************)
NextLoc ==
    \/ QueryObject
    \/ FromName
    \/ QueryRegion
    \/ GetProductList

SpecLoc == Init /\ [][NextLoc]_vars

(***************************************************************************)
(* load_fits_from_url alone, called with any max_retries on any file.      *)
(***************************************************************************)
RetryArgs == -1..MaxRetries

InitLoad ==
    /\ pc = "unit"
    /\ loc_pc = "idle"
    /\ stretch \in StretchVals
    /\ Q \in QVals
    /\ band = 0
    /\ bands_data = [b \in BandNames |-> NoneVal]
    /\ object_name = DefaultObject
    /\ InitLocVars
    /\ InitOutVars
    /\ InitCacheVars
    /\ lf_hit = FALSE
    /\ lf_pc = "enter"
    /\ lf_url \in {ProductTable(2, <<1, 2>>)[k] : k \in 1..2}
    /\ lf_max \in RetryArgs
    /\ attempt = 0
    /\ attempts = 0
    /\ raises = 0
    /\ sleeps = 0
    /\ lf_warned = FALSE
    /\ lf_hdul = <<>>
    /\ lf_result = BareNone

NextLoad ==
    \/ LoadEnter
    \/ LoadAttemptAny
    \/ LoadScan

SpecLoad == InitLoad /\ [][NextLoad]_vars

(***************************************************************************)
(* create_rgb_image alone, called on any three bands.                      *)
(***************************************************************************)
InitNorm ==
    /\ pc = "compose"
    /\ loc_pc = "idle"
    /\ stretch \in StretchVals
    /\ Q \in QVals
    /\ band = 0
    /\ bands_data \in [BandNames -> Images \cup {NoneVal}]
    /\ object_name = DefaultObject
    /\ InitLocVars
    /\ InitLoadVars
    /\ InitOutVars
    /\ InitCacheVars

NextNorm == Compose

SpecNorm == InitNorm /\ [][NextNorm]_vars

(***************************************************************************)
(* Several runs of the script in one server session: every widget          *)
(* interaction runs the script again from the top, with the stores of      *)
(* st.cache_data kept.                                                     *)
(***************************************************************************)
\* the script is run again: the widgets are read, the names of the script
\* are rebound and get_hubble_fits_urls is called (line 219); a stored
\* value not older than ttl=3600 is returned without running the function
Rerun ==
    /\ pc \in {"done", "crashed"}
    /\ run < MaxRuns
    /\ run' = run + 1
    /\ pc' = "locate"
    /\ band' = 0
    /\ bands_data' = [b \in BandNames |-> NoneVal]
    /\ obs_table' = <<>>
    /\ obs_ids' = <<>>
    /\ products' = <<>>
    /\ filter_calls' = <<>>
    /\ calls' = {}
    /\ obs_counts' = <<>>
    /\ loc_raised' = ""
    /\ lf_pc' = "idle"
    /\ lf_url' = NoRow
    /\ lf_max' = DefaultRetries
    /\ attempt' = 0
    /\ attempts' = 0
    /\ raises' = 0
    /\ sleeps' = 0
    /\ lf_warned' = FALSE
    /\ lf_hdul' = <<>>
    /\ lf_result' = BareNone
    /\ lf_hit' = FALSE
    /\ composed' = FALSE
    /\ cr_out' = NoCrOut
    /\ shown' = FALSE
    /\ fault' = ""
    /\ \E name \in ObjectNames, s \in StretchVals, q \in QVals, fresh \in BOOLEAN :
         LET entry == loc_cache[name] IN
         /\ object_name' = name
         /\ stretch' = s
         /\ Q' = q
         /\ IF CacheHit(entry) /\ fresh
            THEN /\ loc_hit' = TRUE
                 /\ loc_pc' = "returned"
                 /\ urls' = entry.urls
                 /\ msgs' = entry.msgs
                 /\ UNCHANGED loc_cache
            ELSE /\ loc_hit' = FALSE
                 /\ loc_pc' = "query_object"
                 /\ urls' = <<>>
                 /\ msgs' = {}
                 /\ loc_cache' = [loc_cache EXCEPT ![name] = NoLocEntry]
    /\ UNCHANGED fits_cache

\* the archive and the widgets of the sessions that are followed over
\* several runs
SmallWorld ==
    /\ Len(obs_table) <= 1
    /\ products \in {<<>>, ProductTable(BandsNeeded, <<1, 1>>)}
    /\ lf_hdul \in {<<>>, <<NoneVal>>, <<Arr(<<1, 1>>, <<1>>, {})>>}
    /\ stretch = 5
    /\ Q = 10

InitRuns == Init /\ SmallWorld

NextRuns ==
    \/ QueryObject /\ SmallWorld'
    \/ FromName /\ SmallWorld'
    \/ QueryRegion /\ SmallWorld'
    \/ GetProductList /\ SmallWorld'
    \/ LocReturn /\ SmallWorld'
    \/ LoadEnter /\ SmallWorld'
    \/ LoadAttemptLive /\ SmallWorld'
    \/ LoadScan /\ SmallWorld'
    \/ Branch /\ SmallWorld'
    \/ StoreBand /\ SmallWorld'
    \/ CheckBands /\ SmallWorld'
    \/ Compose /\ SmallWorld'
    \/ Rerun /\ SmallWorld'

SpecRuns == InitRuns /\ [][NextRuns]_vars

(***************************************************************************)
(* Properties.                                                             *)
(***************************************************************************)
RunEnded == pc \in {"done", "crashed"}

\* the three calls of load_fits_from_url of the band loop have returned
BandsLoaded == pc \in {"check", "compose", "done", "crashed"} /\ band = BandsNeeded

SomeBandMissing == \E b \in BandNames : IsNone(bands_data[b])

\* C1: create_rgb_image is called only when Red, Green and Blue all hold
\* pixel data, and a run in which some load failed ends without a call of
\* create_rgb_image and with the "Failed to load one or more FITS files"
\* error.
C1_ComposeOnlyOnThreeBands ==
    /\ composed => ~SomeBandMissing
    /\ (RunEnded /\ BandsLoaded /\ SomeBandMissing) =>
          /\ ~composed
          /\ pc = "done"
          /\ "error_failed_to_load_fits" \in msgs

Explanations ==
    {"error_failed_to_load_fits", "warn_found_only_n", "warn_no_hubble_data",
     "error_rgb_creation_failed"}

\* C2: every run ends with an image shown, or with no image and an
\* explanatory message; no run ends in an unhandled exception.
C2_NoUnhandledFault ==
    RunEnded => /\ fault = ""
                /\ pc = "done"
                /\ (shown \/ msgs \cap Explanations # {})

\* C3: when the three loads of the band loop all succeed, the run calls
\* create_rgb_image and ends with an RGB array of exactly 3 channels.
C3_ThreeLoadsGiveRgb ==
    (RunEnded /\ BandsLoaded /\ ~SomeBandMissing) =>
        /\ composed
        /\ shown
        /\ Len(cr_out.result.shape) = 3
        /\ cr_out.result.shape[3] = 3

\* failed attempts, out of the first r, that had attempts remaining
WaitsDue(r, max_retries) == Cardinality({k \in 1..r : k < max_retries})

\* C4: load_fits_from_url makes at most max_retries attempts; when the
\* first max_retries attempts all raise the result is (None, None) with a
\* warning; a wait follows exactly the failed attempts that have attempts
\* remaining, never the last one.
C4_BoundedRetries ==
    /\ attempts <= (IF lf_max > 0 THEN lf_max ELSE 0)
    /\ (lf_pc = "done" /\ lf_max >= 1 /\ raises = lf_max) =>
          (lf_result = NonePair /\ lf_warned)
    /\ lf_pc \in {"attempt", "opened", "done"} => sleeps = WaitsDue(raises, lf_max)

C4_Witness ==
    /\ lf_pc = "done"
    /\ lf_max = DefaultRetries
    /\ raises = lf_max
    /\ attempts = lf_max
    /\ sleeps = lf_max - 1
    /\ lf_result = NonePair
    /\ lf_warned

HasValidExt(hdul) == \E k \in 1..Len(hdul) : ValidExt(hdul[k])

\* C5: once a file is downloaded and opened, the call returns at once, with
\* no further attempt and no wait: (None, None) when no extension holds
\* image data, otherwise the first extension in file order that does.
C5_ContentNotRetried ==
    [][lf_pc = "opened" =>
        /\ lf_pc' = "done"
        /\ attempts' = attempts
        /\ sleeps' = sleeps
        /\ IF HasValidExt(lf_hdul)
           THEN /\ lf_result'.pair
                /\ lf_result'.header \in 1..Len(lf_hdul)
                /\ ValidExt(lf_hdul[lf_result'.header])
                /\ lf_result'.data = lf_hdul[lf_result'.header]
                /\ \A j \in 1..(lf_result'.header - 1) : ~ValidExt(lf_hdul[j])
           ELSE lf_result' = NonePair /\ ~lf_warned']_vars

C5_Witness ==
    /\ lf_pc = "done"
    /\ lf_result = NonePair
    /\ ~lf_warned
    /\ attempts >= 1
    /\ attempts < lf_max
    /\ sleeps = attempts - 1

\* all pixels of the band hold the same number
IsConstantBand(a) ==
    /\ ~IsNone(a)
    /\ a.nan = {}
    /\ \A i, j \in 1..Len(a.px) : a.px[i] = a.px[j]

\* C6: for a band whose values are all identical safe_normalize divides by
\* nothing that is zero and returns no NaN, and no undefined value reaches
\* the composite.
C6_ConstantBandDefined ==
    composed =>
        /\ \A k \in 1..3 :
             IsConstantBand(BandValues[k]) =>
                /\ cr_out.norms[k].den # 0
                /\ cr_out.norms[k].nan = {}
        /\ ~cr_out.result.tainted

\* C7: create_rgb_image returns None whenever one of r, g, b is None, and
\* no exception leaves it: an exception inside yields None as well.
C7_NoneInNoneOut ==
    composed =>
        /\ ~cr_out.raised
        /\ pc = "done"
        /\ SomeBandMissing => (cr_out.result = NoneRgb /\ ~shown)
        /\ cr_out.error => (cr_out.result = NoneRgb /\ ~shown)
        /\ (\E a, b \in BandNames : bands_data[a].shape # bands_data[b].shape)
              => cr_out.result = NoneRgb

C7_Witness ==
    /\ composed
    /\ ~IsNone(bands_data["Red"])
    /\ IsNone(bands_data["Green"])
    /\ ~IsNone(bands_data["Blue"])
    /\ cr_out.result = NoneRgb
    /\ ~cr_out.raised

NameQueryEmpty == Len(obs_counts) >= 1 /\ obs_counts[1] = 0
RegionQueryEmpty == Len(obs_counts) >= 2 /\ obs_counts[2] = 0

\* C8 as stated: the coordinate fallback is tried iff the name query
\* returned no rows; when name resolution fails, the coordinate query
\* returns no rows or any external call raises, the result is the empty
\* list and no product listing is requested.
C8_EmptyAndNoListing ==
    loc_pc = "returned" =>
        /\ ("from_name" \in calls) <=> NameQueryEmpty
        /\ (loc_raised # "" \/ RegionQueryEmpty) =>
              (urls = <<>> /\ "get_product_list" \notin calls)

\* C8 amended: the coordinate fallback is tried iff the name query returned
\* no rows; every failure returns the empty list; no product listing is
\* requested when the failure precedes it (a catalog query or the name
\* resolution raises, or the coordinate query returns no rows); the listing
\* call that raises was requested.
C8_EmptyOnFailure ==
    /\ ("from_name" \in calls) => NameQueryEmpty
    /\ ("query_region" \in calls) => (NameQueryEmpty /\ "from_name" \in calls)
    /\ loc_pc = "returned" =>
        /\ ("from_name" \in calls) <=> NameQueryEmpty
        /\ (loc_raised # "" \/ RegionQueryEmpty) => urls = <<>>
        /\ (loc_raised \in {"query_object", "from_name", "query_region"}
              \/ RegionQueryEmpty) => "get_product_list" \notin calls
        /\ loc_raised = "get_product_list" => "get_product_list" \in calls

C8_Witness ==
    /\ loc_pc = "returned"
    /\ NameQueryEmpty
    /\ RegionQueryEmpty
    /\ calls = {"query_object", "from_name", "query_region"}
    /\ urls = <<>>

IsFitsImage(p) == p.productType = "image" /\ p.extension = "fits"
IsFlt(p) == IsFitsImage(p) /\ p.subgroup = "FLT"
FltRows == SelectSeq(products, IsFlt)
FitsImageRows == SelectSeq(products, IsFitsImage)
Listed == loc_pc = "returned" /\ loc_raised = "" /\ "get_product_list" \in calls

\* C9: the second filter {image, fits} is applied iff the FLT filter
\* matched nothing; without FLT rows the FITS image rows are returned, with
\* at least one FLT row only FLT rows are.
C9_FallbackFilter ==
    Listed =>
        /\ filter_calls[1] = "FLT"
        /\ (Len(filter_calls) = 2) <=> (Len(FltRows) = 0)
        /\ Len(filter_calls) = 2 => filter_calls[2] = ""
        /\ Len(FltRows) = 0 => urls = Take(FitsImageRows, UrlLimit)
        /\ Len(FltRows) > 0 => urls = Take(FltRows, UrlLimit)

C9_Witness ==
    /\ Listed
    /\ Len(FltRows) = 0
    /\ Len(FitsImageRows) >= 1
    /\ urls = FitsImageRows
    /\ \E k \in 1..Len(products) : ~IsFitsImage(products[k])

MatchingRows == IF Len(FltRows) > 0 THEN FltRows ELSE FitsImageRows

\* C10: at most the first 10 obsids, in catalog order, are passed to the
\* product listing; at most the first 6 matching rows, in filter order, are
\* returned; every reference passed to load_fits_from_url is a FITS image.
C10_FanOut ==
    /\ Len(obs_ids) <= ObsLimit
    /\ "get_product_list" \in calls =>
          /\ Len(obs_ids) = (IF Len(obs_table) < ObsLimit THEN Len(obs_table)
                             ELSE ObsLimit)
          /\ \A i \in 1..Len(obs_ids) : obs_ids[i] = obs_table[i]
    /\ Len(urls) <= UrlLimit
    /\ Listed =>
          /\ Len(urls) = (IF Len(MatchingRows) < UrlLimit THEN Len(MatchingRows)
                          ELSE UrlLimit)
          /\ \A i \in 1..Len(urls) : urls[i] = MatchingRows[i]
    /\ \A i \in 1..Len(urls) : IsFitsImage(urls[i])
    /\ lf_pc # "idle" => IsFitsImage(lf_url)
    /\ pc = "load" => lf_url = urls[band]

C10_Witness ==
    /\ Listed
    /\ Len(obs_table) > ObsLimit
    /\ Len(obs_ids) = ObsLimit
    /\ Len(MatchingRows) > UrlLimit
    /\ Len(urls) = UrlLimit

\* C12: for every integer max_retries load_fits_from_url returns a pair,
\* (pixels, header) or (None, None), which the caller can unpack; with
\* max_retries <= 0 it makes no attempt and returns (None, None).
C12_AlwaysAPair ==
    lf_pc = "done" =>
        /\ lf_result.pair
        /\ lf_max <= 0 => (attempts = 0 /\ lf_result = NonePair)

\* the statements of the body of get_hubble_fits_urls
LocBody == {"query_object", "from_name", "query_region", "get_product_list"}

\* get_hubble_fits_urls has returned to the script
LocReturned == pc = "locate" /\ loc_pc = "returned"

\* load_fits_from_url has returned to the script
LoadReturned == pc = "load" /\ lf_pc = "done"

\* C11: no state is shared between calls, so a failure result (None, or an
\* empty list of urls) returned by the loader or the locator in a run comes
\* from attempts made in that run, never from an earlier run.
C11_FailureNotReused ==
    /\ (LocReturned /\ urls = <<>>) => "query_object" \in calls
    /\ (LoadReturned /\ IsNone(lf_result.data)) => attempts >= 1

\* What the stores do: the locator and the loader each keep results keyed
\* by their arguments across runs.  A call whose arguments are not
\* stored makes its own bounded attempts and stores what it returns; a call
\* whose arguments are stored makes no attempt and returns the stored
\* result, a failure result included.
StoredResultReused ==
    /\ run = 1 => (~loc_hit /\ ~lf_hit)
    /\ (pc = "locate" /\ loc_pc \in LocBody) =>
           (~loc_hit /\ ~loc_cache[object_name].cached)
    /\ LocReturned =>
           /\ loc_hit <=> ("query_object" \notin calls)
           /\ loc_hit => /\ loc_cache[object_name].cached
                         /\ urls = loc_cache[object_name].urls
    /\ (pc = "load" /\ lf_pc \in {"attempt", "opened"}) =>
           (~lf_hit /\ ~fits_cache[lf_url.dataURI].cached)
    /\ LoadReturned =>
           /\ lf_hit <=> (attempts = 0)
           /\ ~lf_hit => attempts \in 1..lf_max
           /\ fits_cache[lf_url.dataURI].cached
           /\ lf_result = fits_cache[lf_url.dataURI].result

\* a later run gets the (None, None) of an earlier run back for the same
\* url, no attempt made
FailureReused ==
    /\ run > 1
    /\ LoadReturned
    /\ lf_hit
    /\ attempts = 0
    /\ lf_result = NonePair

====
